---- MODULE Spec2Model ----
(***************************************************************************)
(* Concurrent caching web proxy (proxy.c, cache.c, cache.h).               *)
(*                                                                         *)
(* The model keeps the cache as the code keeps it: a heap of cache_block   *)
(* records linked by nextBlock / previousBlock, the global Cache struct    *)
(* (cacheBlockHead, cacheBlockTail, cache_size, rwMutex) and one program   *)
(* counter per worker thread running clientRequestHandler.  A step is a    *)
(* stretch of one thread's code up to the point where another thread can   *)
(* first observe a difference.                                             *)
(*                                                                         *)
(* Sizes are counted in a scaled unit: MAX_OBJECT_SIZE and MAX_CACHE_SIZE  *)
(* keep their roles (object cap, cache cap) with small values, and size_t  *)
(* arithmetic wraps at SizeMod.                                            *)
(***************************************************************************)
EXTENDS Integers, Sequences, FiniteSets, TLC

\* ------------------------------------------------------------------ bounds
NumWorkers == 3
NumURIs == 2
NumBlocks == 3
MaxMisses == 3
MaxHits == 3
MaxResponse == 4
\* A second workload: fewer threads and hits, one more miss.
PairWorkers == 2
PairMisses == 4
PairHits == 2
\* A fourth workload: the handler followed statement by statement.
LockWorkers == 2
LockRequests == 3
\* A third workload: one caller that inserts distinct URIs in turn and may
\* look entries up between the inserts.
ScenarioBlocks == 5
ScenarioInserts == 10
ScenarioLookups == 2
\* A fourth workload: one request followed from its request line on, with
\* at most MaxHeaders header lines.
MaxHeaders == 2
\* Reads from the origin that fail during one download.
MaxReadErrors == 1

\* ------------------------------------------------------- program constants
MAX_CACHE_SIZE == 3
MAX_OBJECT_SIZE == 3
MAXLINE == 2
SizeMod == 2 ^ 8

NULL == 0
NOBODY == 0

Workers == 1 .. NumWorkers
URIs == 1 .. NumURIs
Blocks == 1 .. NumBlocks

\* size_t arithmetic, and the value a signed result takes when it is
\* stored in a size_t
SizeAdd(a, b) == (a + b) % SizeMod
AsSize(n) == n % SizeMod
SizeSub(a, b) == (a - b + SizeMod) % SizeMod

\* The bytes an origin serves for a URI: n bytes, each the URI's mark.
OriginBytes(u, n) == [i \in 1 .. n |-> u]

VARIABLES
    heap,       \* Blocks -> cache_block record (contents stay after Free)
    alloc,      \* blocks currently allocated (Malloc'ed, not yet Free'd)
    cache,      \* the global Cache struct
    thr,        \* per worker: locals of clientRequestHandler and callees
    nAccepted,  \* connections accepted so far by main's loop, counted by
                \* the outcome of the cache probe: [hit |-> n, miss |-> m]
    fault,      \* "none", "uaf" (freed memory was used), "overrun" (a copy
                \* ran past the end of an array), "abort" (process died)
    fetch,      \* the origin's side of a download that is followed read by
                \* read: the reads still to come and the bytes sent so far
    conn        \* the client's side of a request that is followed from its
                \* request line on: what was read, written and decided

vars == <<heap, alloc, cache, thr, nAccepted, fault, fetch, conn>>

\* cache.h:22-30
cache_block ==
    [cache_obj : Seq(URIs), cache_obj_size : 0 .. SizeMod - 1,
     cache_uri_key : {0} \cup URIs, readReferenceCnt : Int,
     nextBlock : {NULL} \cup Blocks, previousBlock : {NULL} \cup Blocks]

BlankBlock ==
    [cache_obj |-> <<>>, cache_obj_size |-> 0, cache_uri_key |-> 0,
     readReferenceCnt |-> 0, nextBlock |-> NULL, previousBlock |-> NULL]

\* Locals of a worker thread before it has read its request.  The last five
\* fields are not in the code; they record what the thread has seen: the
\* branch and the object of its hit, whether its eviction met a pinned
\* head, the bytes its eviction took out of the list, and whether the list
\* held exactly MAX_CACHE_SIZE bytes, none pinned, when its cache_uri began.
FreshThread ==
    [pc |-> "idle", uri |-> 0, reqCachePtr |-> NULL, sizebuf |-> 0,
     bufEnd |-> 0, cacheLinePtr |-> NULL, sizeFreed |-> 0, reqBufSize |-> 0,
     hitAt |-> "none", hitBody |-> <<>>, waited |-> FALSE, removed |-> 0,
     full |-> FALSE]

\* No download is being followed.
NoFetch ==
    [pc |-> "none", uri |-> 0, left |-> <<>>, got |-> 0, errs |-> 0,
     teed |-> 0, sent |-> 0]

\* No request is being followed from its request line.
NoConn ==
    [pc |-> "none", line |-> <<>>, uri |-> <<>>, hdrs |-> <<>>, out |-> <<>>,
     probed |-> FALSE, origin |-> "none", failed |-> "none",
     request |-> <<>>]

\* cache_init (cache.c:28-35) and main before its accept loop.
Init ==
    /\ heap = [b \in Blocks |-> BlankBlock]
    /\ alloc = {}
    /\ cache = [cacheBlockHead |-> NULL, cacheBlockTail |-> NULL,
                cache_size |-> 0, rwMutex |-> NOBODY]
    /\ thr = [w \in Workers |-> FreshThread]
    /\ nAccepted = [hit |-> 0, miss |-> 0]
    /\ fault = "none"
    /\ fetch = NoFetch
    /\ conn = NoConn

\* ------------------------------------------------------------- list view
\* The blocks met by following nextBlock from p, at most fuel of them.
RECURSIVE Walk(_, _, _)
Walk(h, p, fuel) ==
    IF p = NULL \/ fuel = 0 THEN <<>>
    ELSE <<p>> \o Walk(h, h[p].nextBlock, fuel - 1)

\* The recency order as a traversal from cacheBlockHead sees it (cachePrint).
ListOf(h, c) == Walk(h, c.cacheBlockHead, Len(h) + 1)

SeqSet(s) == {s[i] : i \in 1 .. Len(s)}

RECURSIVE SumSizes(_, _)
SumSizes(h, s) ==
    IF s = <<>> THEN 0 ELSE h[Head(s)].cache_obj_size + SumSizes(h, Tail(s))

\* The bytes of the entries that are in the list in (h, c) and not in the
\* list in (h2, c2).
BytesGone(h, c, h2, c2) ==
    LET after == SeqSet(ListOf(h2, c2))
        IsGone(b) == b \notin after
    IN  SumSizes(h, SelectSeq(ListOf(h, c), IsGone))

\* The list holds exactly MAX_CACHE_SIZE bytes and none of its entries is
\* pinned.
FullUnpinned(h, c) ==
    /\ SumSizes(h, ListOf(h, c)) = MAX_CACHE_SIZE
    /\ c.cache_size = MAX_CACHE_SIZE
    /\ \A b \in SeqSet(ListOf(h, c)) : h[b].readReferenceCnt = 0

\* ------------------------------------------------------------ cache_find
HANG == 0 - 1

\* A scan that takes the first block whatever its key (the strcmp result
\* ignored).
FindScanFirst(h, p, url, fuel) ==
    IF p = NULL THEN [ret |-> NULL, visited |-> {}]
    ELSE [ret |-> p, visited |-> {p}]

\* The while loop of cache_find: follow nextBlock from p until the key
\* matches (strcmp) or NULL.  A list that never ends never returns (HANG).
RECURSIVE FindScan(_, _, _, _)
FindScan(h, p, url, fuel) ==
    IF p = NULL THEN [ret |-> NULL, visited |-> {}]
    ELSE IF h[p].cache_uri_key = url THEN [ret |-> p, visited |-> {p}]
    ELSE IF fuel = 0 THEN [ret |-> HANG, visited |-> {p}]
    ELSE LET r == FindScan(h, h[p].nextBlock, url, fuel - 1)
         IN  [ret |-> r.ret, visited |-> r.visited \cup {p}]

\* Which branch of the "implicit list update" a hit on p takes.
HitBranch(h, c, p) ==
    IF p = c.cacheBlockHead /\ h[p].nextBlock # NULL THEN "head"
    ELSE IF p = c.cacheBlockTail /\ h[p].previousBlock # NULL THEN "tail"
    ELSE IF h[p].previousBlock # NULL /\ h[p].nextBlock # NULL THEN "middle"
    ELSE "only"

\* cache hit at head: unlink from the front, append behind the tail.
PromoteHead(h, c, p) ==
    LET nx == h[p].nextBlock
        h1 == [h EXCEPT ![nx].previousBlock = NULL]
        tl == c.cacheBlockTail
        h2 == [h1 EXCEPT ![tl].nextBlock = p]
        h3 == [h2 EXCEPT ![p].nextBlock = NULL, ![p].previousBlock = tl]
    IN  [heap |-> h3,
         cache |-> [c EXCEPT !.cacheBlockHead = nx, !.cacheBlockTail = p]]

\* cache hit in the middle: bridge the neighbours, append behind the tail.
PromoteMiddle(h, c, p) ==
    LET nx == h[p].nextBlock
        h1 == [h EXCEPT ![nx].previousBlock = h[p].previousBlock]
        pv == h1[p].previousBlock
        h2 == [h1 EXCEPT ![pv].nextBlock = h1[p].nextBlock]
        tl == c.cacheBlockTail
        h3 == [h2 EXCEPT ![tl].nextBlock = p]
        h4 == [h3 EXCEPT ![p].nextBlock = NULL, ![p].previousBlock = tl]
    IN  [heap |-> h4, cache |-> [c EXCEPT !.cacheBlockTail = p]]

\* A hit that leaves the list as it is (no move to the tail).
PromoteNone(h, c, p) == [heap |-> h, cache |-> c]

\* The list update of a hit on p, after the pin was taken.
Promote(h, c, p) ==
    CASE HitBranch(h, c, p) = "head" -> PromoteHead(h, c, p)
      [] HitBranch(h, c, p) = "middle" -> PromoteMiddle(h, c, p)
      [] OTHER -> [heap |-> h, cache |-> c]

\* Blocks other than p that the list update of a hit on p reads or writes.
PromoteDeref(h, c, p) ==
    CASE HitBranch(h, c, p) = "head" ->
            {h[p].nextBlock, c.cacheBlockTail}
      [] HitBranch(h, c, p) = "middle" ->
            {h[p].nextBlock, h[p].previousBlock, c.cacheBlockTail}
      [] OTHER -> {}

\* cache_find between lockMutex and unLockMutex: the result, the heap and
\* the cache after it, the update branch taken, the blocks dereferenced.
cache_find(h, c, url) ==
    LET s == FindScan(h, c.cacheBlockHead, url, Len(h))
    IN  IF s.ret \in DOMAIN h
        THEN LET p == s.ret
                 h1 == [h EXCEPT ![p].readReferenceCnt = @ + 1]
                 r == Promote(h1, c, p)
             IN  [ret |-> p, heap |-> r.heap, cache |-> r.cache,
                  at |-> HitBranch(h1, c, p),
                  deref |-> s.visited \cup PromoteDeref(h1, c, p)]
        ELSE [ret |-> s.ret, heap |-> h, cache |-> c, at |-> "none",
              deref |-> s.visited]

\* -------------------------------------------------------- cache_eviction
\* An eviction pass that leaves cache_size as it was (the subtraction
\* forgotten).
EvictBlockKeepSize(h, a, c, p) ==
    LET nx == h[p].nextBlock
        h1 == IF nx # NULL THEN [h EXCEPT ![nx].previousBlock = NULL] ELSE h
        c1 == IF nx # NULL
              THEN [c EXCEPT !.cacheBlockHead = nx]
              ELSE [c EXCEPT !.cacheBlockHead = NULL, !.cacheBlockTail = NULL]
    IN  [heap |-> h1, alloc |-> a \ {p}, cache |-> c1,
         freed |-> h[p].cache_obj_size, next |-> c1.cacheBlockHead]

\* One pass of the eviction loop body once the busy wait is over: free the
\* block cacheLinePtr points to and make its successor the head.
EvictBlock(h, a, c, p) ==
    LET nx == h[p].nextBlock
        h1 == IF nx # NULL THEN [h EXCEPT ![nx].previousBlock = NULL] ELSE h
        c1 == IF nx # NULL
              THEN [c EXCEPT !.cacheBlockHead = nx]
              ELSE [c EXCEPT !.cacheBlockHead = NULL, !.cacheBlockTail = NULL]
        c2 == [c1 EXCEPT !.cache_size = SizeSub(@, h[p].cache_obj_size)]
    IN  [heap |-> h1, alloc |-> a \ {p}, cache |-> c2,
         freed |-> h[p].cache_obj_size, next |-> c2.cacheBlockHead]

\* The loop condition of cache_eviction.
EvictMore(sizeFreed, reqBufSize, p) == sizeFreed < reqBufSize /\ p # NULL

\* ------------------------------------------------------------- cache_uri
\* Whether cache_uri calls cache_eviction, and for how much, for a cache
\* whose cap is cap.
OverCap(c, buffSize, cap) == SizeAdd(c.cache_size, buffSize) > cap

Shortfall(c, buffSize, cap) == SizeSub(SizeAdd(c.cache_size, buffSize), cap)

NeedsEviction(c, buffSize) == OverCap(c, buffSize, MAX_CACHE_SIZE)

EvictionRequest(c, buffSize) == Shortfall(c, buffSize, MAX_CACHE_SIZE)

\* cache_uri after the eviction: link the new block b behind the tail and
\* fill it in.
InsertBlock(h, a, c, b, uri, buf, buffSize) ==
    LET empty == c.cacheBlockHead = NULL /\ c.cacheBlockTail = NULL
        tl == c.cacheBlockTail
        h1 == IF empty THEN h ELSE [h EXCEPT ![tl].nextBlock = b]
        h2 == [h1 EXCEPT ![b] =
                  [cache_obj |-> SubSeq(buf, 1, buffSize),
                   cache_obj_size |-> buffSize,
                   cache_uri_key |-> uri,
                   readReferenceCnt |-> 0,
                   nextBlock |-> NULL,
                   previousBlock |-> IF empty THEN NULL ELSE tl]]
        c1 == IF empty
              THEN [c EXCEPT !.cacheBlockHead = b, !.cacheBlockTail = b]
              ELSE [c EXCEPT !.cacheBlockTail = b]
    IN  [heap |-> h2, alloc |-> a \cup {b},
         cache |-> [c1 EXCEPT !.cache_size = SizeAdd(@, buffSize)]]

\* ------------------------------------------------------------ relay loop
\* One pass of the relay loop in clientRequestHandler for a read of n
\* bytes: the tee into ResponseObjectbuf, then the running total.
RelayChunk(t, n) ==
    [t EXCEPT !.bufEnd = IF t.sizebuf < MAX_OBJECT_SIZE
                         THEN t.sizebuf + n ELSE @,
              !.sizebuf = SizeAdd(@, n)]

RECURSIVE RelayLoop(_, _)
RelayLoop(t, chunks) ==
    IF chunks = <<>> THEN t
    ELSE RelayLoop(RelayChunk(t, Head(chunks)), Tail(chunks))

RECURSIVE SumSeq(_)
SumSeq(s) == IF s = <<>> THEN 0 ELSE Head(s) + SumSeq(Tail(s))

\* The reads of one origin response: each returns 1 .. MAXLINE bytes, the
\* response is at most MaxResponse bytes long.
ChunkSeqs ==
    {s \in UNION {[1 .. k -> 1 .. MAXLINE] : k \in 0 .. MaxResponse} :
        SumSeq(s) <= MaxResponse}

\* The test that guards the insert after the relay loop.
Cacheable(sizebuf) == sizebuf < MAX_OBJECT_SIZE

\* What a relay loop that leaves the thread as t has done to a process
\* that stood at f: a copy that ran past the end of ResponseObjectbuf may
\* go unnoticed or end the process.
Teed(t, f) == IF t.bufEnd > MAX_OBJECT_SIZE THEN {"overrun", "abort"}
              ELSE {f}

\* ---------------------------------------------------------------- steps
\* A step is a stretch of one thread's code that ends where another thread
\* can first see a difference: lockMutex is taken together with what follows
\* it, and socket I/O together with the next cache operation's result.
Free(c) == c.rwMutex = NOBODY

Holds(w) == cache.rwMutex = w

Locked(c, w) == [c EXCEPT !.rwMutex = w]

Unlocked(c) == [c EXCEPT !.rwMutex = NOBODY]

\* What the busy wait of cache_eviction sees in block p: TRUE to go on
\* waiting.  A freed block may show any count.
Pinned(h, a, p) == {h[p].readReferenceCnt # 0} \cup
                   (IF p \in a THEN {} ELSE {TRUE, FALSE})

\* The blocks the next step of thread w dereferences (NULL included when it
\* dereferences a null pointer).
Deref(w) ==
    LET t == thr[w] IN
    CASE t.pc = "recheck" ->
            cache_find(heap, cache, t.uri).deref
      [] t.pc = "hit" -> {t.reqCachePtr}
      [] t.pc = "evict_relock" -> {t.cacheLinePtr}
      [] t.pc = "evict_free" ->
            {t.cacheLinePtr} \cup
            (IF heap[t.cacheLinePtr].nextBlock # NULL
             THEN {heap[t.cacheLinePtr].nextBlock} ELSE {})
      [] t.pc = "uri_insert" ->
            IF cache.cacheBlockHead = NULL /\ cache.cacheBlockTail = NULL
            THEN {} ELSE {cache.cacheBlockTail}
      [] OTHER -> {}

\* Whether thread w is at a step it can take now.
Runnable(w) ==
    /\ fault # "abort"
    /\ thr[w].pc # "idle"
    /\ IF thr[w].pc \in {"evict_free", "uri_insert"} THEN Holds(w)
       ELSE Free(cache)

\* The step of w dereferences no null pointer.
Sound(w) == NULL \notin Deref(w)

Noted(w) == IF Deref(w) \subseteq alloc THEN fault ELSE "uaf"

\* The thread after the relay loop has read the origin's response in the
\* given chunks, and where it goes by the first half of the test at
\* proxy.c:315.
Relayed(t, chunks) ==
    LET t1 == RelayLoop(t, chunks) IN
    IF Cacheable(t1.sizebuf) THEN [t1 EXCEPT !.pc = "recheck"]
    ELSE FreshThread

\* The ways a thread can go on after a miss on u whose download it makes
\* in one go: the thread after the relay loop, and whether a copy of the
\* loop ran past the end of ResponseObjectbuf.
Downloads(u) ==
    {[t |-> Relayed([FreshThread EXCEPT !.uri = u], chunks),
      over |-> RelayLoop(FreshThread, chunks).bufEnd > MAX_OBJECT_SIZE] :
        chunks \in ChunkSeqs}

\* main's accept loop hands a connection to a new thread, which reads a
\* well-formed GET request line for URI u (proxy.c:130-149, 161-165,
\* 181-221) and probes the cache: cache_find(uri) of proxy.c:227.  after
\* holds the ways the thread can go on after a miss.
Lookup(w, u, hits, misses, after) ==
    LET r == cache_find(heap, cache, u)
        t == [FreshThread EXCEPT !.uri = u]
        probed == IF r.deref \subseteq alloc THEN fault ELSE "uaf"
    IN  /\ NULL \notin r.deref
        /\ r.ret # HANG
        /\ heap' = r.heap
        /\ cache' = r.cache
        /\ IF r.ret # NULL
           THEN /\ nAccepted.hit < hits
                /\ nAccepted' = [nAccepted EXCEPT !.hit = @ + 1]
                /\ thr' = [thr EXCEPT ![w] =
                           [t EXCEPT !.pc = "hit",
                                     !.reqCachePtr = r.ret,
                                     !.hitAt = r.at,
                                     !.hitBody = heap[r.ret].cache_obj]]
                /\ fault' = probed
           ELSE /\ nAccepted.miss < misses
                /\ nAccepted' = [nAccepted EXCEPT !.miss = @ + 1]
                /\ \E d \in after :
                      /\ thr' = [thr EXCEPT ![w] = d.t]
                      /\ fault' \in IF d.over THEN {"overrun", "abort"}
                                     ELSE {probed}

\* A whole request up to the end of its download: the probe and, on a
\* miss, the URI parse, the upstream request, the relay of the response to
\* the client with its copy into ResponseObjectbuf, and the close of the
\* origin (proxy.c:240-312).
Handle(w, hits, misses) ==
    /\ fault # "abort"
    /\ thr[w].pc = "idle"
    /\ Free(cache)
    /\ \E u \in URIs :
          Lookup(w, u, hits, misses, Downloads(u))
    /\ UNCHANGED <<alloc, fetch, conn>>

Request(w) == Handle(w, MaxHits, MaxMisses)

\* The hit path: rio_writen of the cached object to the client, then
\* reqCachePtr->readReferenceCnt-- under the mutex, and the thread returns
\* (proxy.c:229-236).
ServeHit(w) ==
    /\ Runnable(w) /\ Sound(w)
    /\ thr[w].pc = "hit"
    /\ heap' = [heap EXCEPT ![thr[w].reqCachePtr].readReferenceCnt = @ - 1]
    /\ thr' = [thr EXCEPT ![w] = FreshThread]
    /\ fault' = Noted(w)
    /\ UNCHANGED <<alloc, cache, nAccepted, fetch, conn>>

\* The recheck: cache_find(uri) of proxy.c:316.  A hit ends the thread.
RecheckFind(w) ==
    LET r == cache_find(heap, cache, thr[w].uri) IN
    /\ Runnable(w) /\ Sound(w)
    /\ thr[w].pc = "recheck"
    /\ r.ret # HANG
    /\ heap' = r.heap
    /\ cache' = r.cache
    /\ thr' = [thr EXCEPT ![w] = IF r.ret = NULL
                                 THEN [@ EXCEPT !.pc = "uri"]
                                 ELSE FreshThread]
    /\ fault' = Noted(w)
    /\ UNCHANGED <<alloc, nAccepted, fetch, conn>>

\* Where cache_eviction stands with cacheLinePtr = p: done, about to free p,
\* or waiting for p with the mutex released.
EvictionPc(h, a, p, sizeFreed, reqBufSize, wait) ==
    IF ~ EvictMore(sizeFreed, reqBufSize, p) THEN "uri_insert"
    ELSE IF wait THEN "evict_relock" ELSE "evict_free"

\* The copy of the URI (proxy.c:318-321), then cache_uri up to the first
\* test of the busy wait (cache.c:183-189, 137-143).
UriBegin(w) ==
    LET t == thr[w]
        req == EvictionRequest(cache, t.sizebuf)
        p == cache.cacheBlockHead
    IN
    /\ Runnable(w)
    /\ t.pc = "uri"
    /\ IF NeedsEviction(cache, t.sizebuf)
       THEN \E wait \in (IF p = NULL THEN {FALSE} ELSE Pinned(heap, alloc, p)) :
               LET pc == EvictionPc(heap, alloc, p, 0, req, wait) IN
               /\ thr' = [thr EXCEPT ![w].reqBufSize = req,
                                     ![w].sizeFreed = 0,
                                     ![w].cacheLinePtr = p,
                                     ![w].waited = (pc = "evict_relock"),
                                     ![w].full = FullUnpinned(heap, cache),
                                     ![w].pc = pc]
               /\ cache' = IF pc = "evict_relock" THEN cache
                           ELSE Locked(cache, w)
               /\ fault' = IF pc = "uri_insert" \/ p \in alloc
                           THEN fault ELSE "uaf"
       ELSE /\ thr' = [thr EXCEPT ![w].pc = "uri_insert",
                                  ![w].full = FullUnpinned(heap, cache)]
            /\ cache' = Locked(cache, w)
            /\ fault' = fault
    /\ UNCHANGED <<heap, alloc, nAccepted, fetch, conn>>

\* The busy wait (cache.c:143-146) re-acquires the mutex and finds the
\* count zero.  While it finds it nonzero nothing changes.
EvictRelock(w) ==
    LET p == thr[w].cacheLinePtr IN
    /\ Runnable(w) /\ Sound(w)
    /\ thr[w].pc = "evict_relock"
    /\ FALSE \in Pinned(heap, alloc, p)
    /\ cache' = Locked(cache, w)
    /\ thr' = [thr EXCEPT ![w].pc = "evict_free"]
    /\ fault' = Noted(w)
    /\ UNCHANGED <<heap, alloc, nAccepted, fetch, conn>>

\* One pass of the eviction loop: free the block, unlink it, reload
\* cacheLinePtr, test the loop condition and the next count
\* (cache.c:147-165, 140-144).
EvictFree(w) ==
    LET t == thr[w]
        e == EvictBlock(heap, alloc, cache, t.cacheLinePtr)
        freed == SizeAdd(t.sizeFreed, e.freed)
    IN
    /\ Runnable(w) /\ Sound(w)
    /\ t.pc = "evict_free"
    /\ heap' = e.heap
    /\ alloc' = e.alloc
    /\ \E wait \in (IF e.next = NULL THEN {FALSE}
                    ELSE Pinned(e.heap, e.alloc, e.next)) :
          LET pc == EvictionPc(e.heap, e.alloc, e.next, freed, t.reqBufSize,
                               wait)
          IN  /\ thr' = [thr EXCEPT ![w].sizeFreed = freed,
                                    ![w].cacheLinePtr = e.next,
                                    ![w].waited = @ \/ pc = "evict_relock",
                                    ![w].removed =
                                        @ + BytesGone(heap, cache,
                                                      e.heap, e.cache),
                                    ![w].pc = pc]
              /\ cache' = IF pc = "evict_relock" THEN Unlocked(e.cache)
                          ELSE e.cache
              /\ fault' = IF /\ Deref(w) \subseteq alloc
                             /\ pc = "uri_insert" \/ e.next \in e.alloc
                          THEN fault ELSE "uaf"
    /\ UNCHANGED <<nAccepted, fetch, conn>>

\* The blocks some pointer of the program still names: the list ends, the
\* links stored in any block, and the pointers the threads hold.
Named ==
    {cache.cacheBlockHead, cache.cacheBlockTail}
    \cup {heap[b].nextBlock : b \in DOMAIN heap}
    \cup {heap[b].previousBlock : b \in DOMAIN heap}
    \cup {thr[w].reqCachePtr : w \in Workers}
    \cup {thr[w].cacheLinePtr : w \in Workers}

\* What Malloc(sizeof(cache_block)) may return: any free block.  Free blocks
\* that no pointer names cannot be told apart, so only the lowest of them
\* is taken; a free block that a stale pointer names is another case each.
Malloc ==
    LET free == DOMAIN heap \ alloc
        fresh == free \ Named
    IN  (free \cap Named) \cup {b \in fresh : \A x \in fresh : b <= x}

\* cache_uri after the eviction: Malloc a block, link it at the tail, copy
\* the object, unLockMutex, and the thread returns (cache.c:191-214).
UriInsert(w) ==
    LET t == thr[w] IN
    /\ Runnable(w) /\ Sound(w)
    /\ t.pc = "uri_insert"
    /\ \E b \in Malloc :
          LET r == InsertBlock(heap, alloc, cache, b, t.uri,
                               OriginBytes(t.uri, t.bufEnd), t.sizebuf)
          IN  /\ heap' = r.heap
              /\ alloc' = r.alloc
              /\ cache' = Unlocked(r.cache)
    /\ thr' = [thr EXCEPT ![w] = FreshThread]
    /\ fault' = Noted(w)
    /\ UNCHANGED <<nAccepted, fetch, conn>>

\* A step that uses a null pointer or freed memory may end the process
\* (segmentation fault, or the allocator detecting a double free).
Abort(w) ==
    /\ \/ Runnable(w) /\ ~ (Deref(w) \subseteq alloc)
       \/ /\ fault # "abort" /\ thr[w].pc = "idle" /\ Free(cache)
          /\ \E u \in URIs :
                ~ (cache_find(heap, cache, u).deref \subseteq alloc)
    /\ fault' = "abort"
    /\ UNCHANGED <<heap, alloc, cache, thr, nAccepted, fetch, conn>>

Next ==
    \E w \in Workers :
        \/ Request(w)
        \/ ServeHit(w)
        \/ RecheckFind(w)
        \/ UriBegin(w)
        \/ EvictRelock(w)
        \/ EvictFree(w)
        \/ UriInsert(w)
        \/ Abort(w)

Spec == Init /\ [][Next]_vars

\* The same program serving the second workload.
RequestPair(w) == Handle(w, PairHits, PairMisses)

NextPair ==
    \E w \in 1 .. PairWorkers :
        \/ RequestPair(w)
        \/ ServeHit(w)
        \/ RecheckFind(w)
        \/ UriBegin(w)
        \/ EvictRelock(w)
        \/ EvictFree(w)
        \/ UriInsert(w)
        \/ Abort(w)

SpecPair == Init /\ [][NextPair]_vars

\* ------------------------------------------------- one download, by reads
\* The probe of a request whose download is then followed read by read.
Probe(w) ==
    /\ fault # "abort"
    /\ thr[w].pc = "idle"
    /\ Free(cache)
    /\ \E u \in URIs :
          /\ Lookup(w, u, MaxHits, MaxMisses,
                    {[t |-> [FreshThread EXCEPT !.uri = u, !.pc = "relay"],
                      over |-> FALSE]})
          /\ \E chunks \in ChunkSeqs :
                fetch' = IF thr'[w].pc = "relay"
                         THEN [NoFetch EXCEPT !.pc = "relay", !.uri = u,
                                              !.left = chunks]
                         ELSE NoFetch
    /\ UNCHANGED <<alloc, conn>>

\* One pass of the relay loop: rio_readnb returns the next n bytes
\* (proxy.c:301-311).
RelayRead(w) ==
    /\ fault # "abort"
    /\ thr[w].pc = "relay"
    /\ fetch.left # <<>>
    /\ thr' = [thr EXCEPT ![w] = RelayChunk(@, Head(fetch.left))]
    /\ fetch' = [fetch EXCEPT !.left = Tail(@), !.got = @ + Head(fetch.left)]
    /\ fault' \in Teed(thr'[w], fault)
    /\ UNCHANGED <<heap, alloc, cache, nAccepted, conn>>

\* rio_readnb fails and returns -1, which is stored in the size_t n
\* (proxy.c:298, 301): the loop test sees a nonzero n and the body runs
\* with it.  The origin sends nothing more.
RelayError(w) ==
    LET n == AsSize(0 - 1)
        tee == IF thr[w].sizebuf < MAX_OBJECT_SIZE THEN n ELSE 0
    IN
    /\ fault # "abort"
    /\ thr[w].pc = "relay"
    /\ fetch.errs < MaxReadErrors
    /\ thr' = [thr EXCEPT ![w] = RelayChunk(@, n)]
    /\ fetch' = [fetch EXCEPT !.left = <<>>, !.errs = @ + 1,
                              !.teed = @ + tee, !.sent = @ + n]
    /\ fault' \in Teed(thr'[w], fault)
    /\ UNCHANGED <<heap, alloc, cache, nAccepted, conn>>

\* rio_readnb returns 0: the loop ends, the origin is closed and the size
\* test of proxy.c:315 sends the thread to the recheck or to its return.
RelayEOF(w) ==
    /\ fault # "abort"
    /\ thr[w].pc = "relay"
    /\ fetch.left = <<>>
    /\ thr' = [thr EXCEPT ![w] = Relayed(@, <<>>)]
    /\ fetch' = [fetch EXCEPT !.pc = "done"]
    /\ UNCHANGED <<heap, alloc, cache, nAccepted, fault, conn>>

\* One worker thread at a time, its downloads followed read by read.
NextRelay ==
    \/ Probe(1)
    \/ RelayRead(1)
    \/ RelayError(1)
    \/ RelayEOF(1)
    \/ ServeHit(1)
    \/ RecheckFind(1)
    \/ UriBegin(1)
    \/ EvictFree(1)
    \/ UriInsert(1)

SpecRelay == Init /\ [][NextRelay]_vars

\* ------------------------------------------- one caller, the true sizes
\* Sizes in this workload are counted in units of 8 KiB, which divides both
\* the cap of cache.h:19 and the object size of the workload.
ScenarioUnit == 8 * 1024

ScenarioCacheSize == (1024 * 1024) \div ScenarioUnit

ScenarioObjectSize == (200 * 1024) \div ScenarioUnit

InitScenario ==
    /\ heap = [b \in 1 .. ScenarioBlocks |-> BlankBlock]
    /\ alloc = {}
    /\ cache = [cacheBlockHead |-> NULL, cacheBlockTail |-> NULL,
                cache_size |-> 0, rwMutex |-> NOBODY]
    /\ thr = [w \in Workers |-> FreshThread]
    /\ nAccepted = [hit |-> 0, miss |-> 0]
    /\ fault = "none"
    /\ fetch = NoFetch
    /\ conn = NoConn

\* The whole loop of cache_eviction when no entry it meets is pinned (the
\* busy wait is never entered, the mutex is held throughout).
RECURSIVE EvictLoop(_, _, _, _, _, _)
EvictLoop(h, a, c, p, sizeFreed, reqBufSize) ==
    IF ~ EvictMore(sizeFreed, reqBufSize, p)
    THEN [heap |-> h, alloc |-> a, cache |-> c]
    ELSE LET e == EvictBlock(h, a, c, p)
         IN  EvictLoop(e.heap, e.alloc, e.cache, e.next,
                       SizeAdd(sizeFreed, e.freed), reqBufSize)

\* A whole cache_uri(uri, buf, buffSize) by a caller that runs alone, in a
\* cache none of whose entries is pinned (cache.c:181-215).  Malloc returns
\* b, the lowest of the free blocks (no pointer names a free block here, so
\* they cannot be told apart).
UriAlone(h, a, c, b, uri, buf, buffSize, cap) ==
    LET ev == IF OverCap(c, buffSize, cap)
              THEN EvictLoop(h, a, c, c.cacheBlockHead, 0,
                             Shortfall(c, buffSize, cap))
              ELSE [heap |-> h, alloc |-> a, cache |-> c]
    IN  IF b \in ev.alloc \/ \E x \in DOMAIN h \ ev.alloc : x < b
        THEN [ok |-> FALSE]
        ELSE [ok |-> TRUE] @@
             InsertBlock(ev.heap, ev.alloc, ev.cache, b, uri, buf, buffSize)

\* The caller inserts the next URI of the sequence U1, U2, ... with an
\* object of ScenarioObjectSize; nAccepted.miss counts the inserts.
ScenarioInsert ==
    LET k == nAccepted.miss + 1 IN
    /\ thr[1].pc = "idle"
    /\ Free(cache)
    /\ k <= ScenarioInserts
    /\ \E b \in DOMAIN heap :
          LET r == UriAlone(heap, alloc, cache, b, k,
                            OriginBytes(k, ScenarioObjectSize),
                            ScenarioObjectSize, ScenarioCacheSize)
          IN  /\ r.ok
              /\ heap' = r.heap
              /\ alloc' = r.alloc
              /\ cache' = r.cache
    /\ nAccepted' = [nAccepted EXCEPT !.miss = @ + 1]
    /\ UNCHANGED <<thr, fault, fetch, conn>>

\* The caller looks up one of the URIs, cache_find(u); after a hit it holds
\* the entry until ServeHit releases it.  nAccepted.hit counts the lookups.
ScenarioLookup ==
    /\ thr[1].pc = "idle"
    /\ Free(cache)
    /\ nAccepted.hit < ScenarioLookups
    /\ \E u \in 1 .. ScenarioInserts :
          LET r == cache_find(heap, cache, u) IN
          /\ heap' = r.heap
          /\ cache' = r.cache
          /\ thr' = [thr EXCEPT ![1] =
                        IF r.ret = NULL THEN FreshThread
                        ELSE [FreshThread EXCEPT
                                 !.pc = "hit", !.uri = u,
                                 !.reqCachePtr = r.ret, !.hitAt = r.at,
                                 !.hitBody = heap[r.ret].cache_obj]]
    /\ nAccepted' = [nAccepted EXCEPT !.hit = @ + 1]
    /\ UNCHANGED <<alloc, fault, fetch, conn>>

NextScenario ==
    \/ ScenarioInsert
    \/ ScenarioLookup
    \/ ServeHit(1)

SpecScenario == InitScenario /\ [][NextScenario]_vars

\* --------------------------------------------- one request, from its line
\* Text is a sequence of one-character strings.  The request lines a client
\* may send: a method, a URI and a protocol version, any of them possibly
\* missing, with or without the separating spaces; and no line at all.
Methods == {<<"G", "E", "T">>, <<"P", "U", "T">>, <<"g", "e", "t">>, <<>>}

UriTexts == {<<"/">>, <<>>}

Versions ==
    {<<"H", "T", "T", "P", "/", "1", ".", v>> : v \in {"0", "1", "2"}}
    \cup {<<"H", "T", "T", "P", "/", "1", ".">>,
          <<"H", "T", "T", "P", "/", "2", ".", "0">>, <<>>}

Seps == {<<" ">>, <<>>}

RequestLines ==
    {m \o s1 \o u \o s2 \o v \o <<"\r", "\n">> :
        m \in Methods, s1 \in Seps, u \in UriTexts, s2 \in Seps, v \in Versions}
    \cup {<<>>}

IsSpace(c) == c \in {" ", "\t", "\r", "\n"}

RECURSIVE SkipSpace(_)
SkipSpace(s) ==
    IF s # <<>> /\ IsSpace(Head(s)) THEN SkipSpace(Tail(s)) ELSE s

RECURSIVE WordLen(_)
WordLen(s) ==
    IF s = <<>> \/ IsSpace(Head(s)) THEN 0 ELSE 1 + WordLen(Tail(s))

Take(s, n) == SubSeq(s, 1, n)

Drop(s, n) == SubSeq(s, n + 1, Len(s))

\* sscanf(buf, "%s %s HTTP/1.%c", method, uri, version): the number of
\* conversions made (EOF before the first one is -1) and their values.
Sscanf(buf) ==
    LET s1 == SkipSpace(buf)
        n1 == WordLen(s1)
        s2 == SkipSpace(Drop(s1, n1))
        n2 == WordLen(s2)
        s3 == SkipSpace(Drop(s2, n2))
        none == [method |-> <<>>, uri |-> <<>>, version |-> ""]
    IN  IF n1 = 0 THEN [none EXCEPT !.method = <<>>] @@ [n |-> 0 - 1]
        ELSE IF n2 = 0
        THEN [none EXCEPT !.method = Take(s1, n1)] @@ [n |-> 1]
        ELSE IF Len(s3) >= 8
                /\ Take(s3, 7) = <<"H", "T", "T", "P", "/", "1", ".">>
        THEN [method |-> Take(s1, n1), uri |-> Take(s2, n2),
              version |-> s3[8], n |-> 3]
        ELSE [none EXCEPT !.method = Take(s1, n1), !.uri = Take(s2, n2)]
             @@ [n |-> 2]

\* A verdict that tests the method before the request line's form.
RequestVerdictMethodFirst(buf) ==
    LET r == Sscanf(buf) IN
    IF r.method # <<"G", "E", "T">> THEN "501"
    ELSE IF r.n # 3 \/ (r.version # "0" /\ r.version # "1") THEN "400"
    ELSE "ok"

\* The two tests of the request line (proxy.c:205-221): the status of the
\* error response, or "ok".
RequestVerdict(buf) ==
    LET r == Sscanf(buf) IN
    IF r.n # 3 \/ (r.version # "0" /\ r.version # "1") THEN "400"
    ELSE IF r.method # <<"G", "E", "T">> THEN "501"
    ELSE "ok"

\* clienterror: the headers, then the body of the error response.
clienterror(errnum) == <<[status |-> errnum, part |-> "headers"],
                         [status |-> errnum, part |-> "body"]>>

\* Header text is a sequence of words; a key is looked for as a run of
\* words (strstr).
host_key == <<"Host">>

connection_key == <<"Connection">>

proxy_connection_key == <<"Proxy-", "Connection">>

user_agent_key == <<"User-Agent">>

Strstr(buf, key) ==
    \E i \in 1 .. Len(buf) - Len(key) + 1 :
        SubSeq(buf, i, i + Len(key) - 1) = key

\* The header lines a client may send, each without its CRLF.
HeaderLines ==
    {<<"Host", ": a">>, <<"Connection", ": keep-alive">>,
     <<"Proxy-", "Connection", ": keep-alive">>, <<"User-Agent", ": curl">>,
     <<"Accept", ": */*">>, <<"X-Forwarded-", "Host", ": b">>,
     <<"Cookie", ": c">>}

HeaderSeqs == UNION {[1 .. k -> HeaderLines] : k \in 0 .. MaxHeaders}

\* What an array on the stack holds before it is first written: an empty
\* string or something else.
Junk == <<"?">>

Stack == {<<>>, <<Junk>>}

request_hdr(path) == <<"GET ", path, " HTTP/1.0">>

conn_hdr == <<"Connection", ": close">>

prox_hdr == <<"Proxy-", "Connection", ": close">>

user_hdr == <<"User-Agent", ": Mozilla/5.0">>

endof_hdr == <<>>

\* The loop of create_server_http_request over the client's header lines
\* up to the empty line (proxy.c:350-364).
RECURSIVE HeaderLoop(_, _, _)
HeaderLoop(lines, host_hdr, other_hdr) ==
    IF lines = <<>> THEN [host_hdr |-> host_hdr, other_hdr |-> other_hdr]
    ELSE LET buf == Head(lines) IN
         IF Strstr(buf, host_key)
         THEN HeaderLoop(Tail(lines), <<buf>>, other_hdr)
         ELSE IF /\ ~ Strstr(buf, connection_key)
                 /\ ~ Strstr(buf, proxy_connection_key)
                 /\ ~ Strstr(buf, user_agent_key)
                 /\ ~ Strstr(buf, host_key)
         THEN HeaderLoop(Tail(lines), host_hdr, other_hdr \o <<buf>>)
         ELSE HeaderLoop(Tail(lines), host_hdr, other_hdr)

\* create_server_http_request: the lines of the request sent upstream.
\* host0 and other0 are what the local arrays host_hdr and other_hdr hold
\* when the function starts.
create_server_http_request(hostname, path, lines, host0, other0) ==
    LET r == HeaderLoop(lines, host0, other0)
        host_hdr == IF r.host_hdr = <<>> THEN <<<<"Host", ": ", hostname>>>>
                    ELSE r.host_hdr
    IN  <<request_hdr(path)>> \o host_hdr \o <<conn_hdr, prox_hdr, user_hdr>>
        \o r.other_hdr \o <<endof_hdr>>

\* The cache as cache_init leaves it, or after one request for "/" has
\* been served and its object stored.
InitRequest ==
    LET h0 == [b \in Blocks |-> BlankBlock]
        c0 == [cacheBlockHead |-> NULL, cacheBlockTail |-> NULL,
               cache_size |-> 0, rwMutex |-> NOBODY]
        r == InsertBlock(h0, {}, c0, 1, <<"/">>, OriginBytes(1, 1), 1)
    IN  /\ \/ heap = h0 /\ alloc = {} /\ cache = c0
           \/ heap = r.heap /\ alloc = r.alloc /\ cache = r.cache
        /\ thr = [w \in Workers |-> FreshThread]
        /\ nAccepted = [hit |-> 0, miss |-> 0]
        /\ fault = "none"
        /\ fetch = NoFetch
        /\ conn = NoConn

\* rio_readlineb of the request line (proxy.c:199-203): nothing read ends
\* the thread.
ReadRequestLine ==
    /\ conn.pc = "none"
    /\ \E line \in RequestLines :
          conn' = [conn EXCEPT !.line = line,
                               !.pc = IF line = <<>> THEN "returned"
                                      ELSE "line"]
    /\ UNCHANGED <<heap, alloc, cache, thr, nAccepted, fault, fetch>>

\* The tests of the request line (proxy.c:205-221).
ParseRequestLine ==
    LET v == RequestVerdict(conn.line) IN
    /\ conn.pc = "line"
    /\ conn' = IF v = "ok"
               THEN [conn EXCEPT !.pc = "probe",
                                 !.uri = Sscanf(conn.line).uri]
               ELSE [conn EXCEPT !.pc = "returned",
                                 !.out = @ \o clienterror(v)]
    /\ UNCHANGED <<heap, alloc, cache, thr, nAccepted, fault, fetch>>

\* The cache probe (proxy.c:227-229): on a hit the object is written to
\* the client and ServeHit ends the thread.
ProbeCache ==
    LET r == cache_find(heap, cache, conn.uri) IN
    /\ conn.pc = "probe"
    /\ Free(cache)
    /\ heap' = r.heap
    /\ cache' = r.cache
    /\ IF r.ret = NULL
       THEN /\ conn' = [conn EXCEPT !.pc = "uri", !.probed = TRUE]
            /\ thr' = thr
       ELSE /\ conn' = [conn EXCEPT
                           !.pc = "returned", !.probed = TRUE,
                           !.out = @ \o <<[status |-> "object",
                                           part |-> heap[r.ret].cache_obj]>>]
            /\ thr' = [thr EXCEPT ![1] =
                          [FreshThread EXCEPT
                              !.pc = "hit", !.reqCachePtr = r.ret,
                              !.hitAt = r.at,
                              !.hitBody = heap[r.ret].cache_obj]]
    /\ UNCHANGED <<alloc, nAccepted, fault, fetch>>

\* parser_parse_line and parser_retrieve (proxy.c:241-264): a failure ends
\* the thread after a message on the proxy's own output.
ParseUri ==
    /\ conn.pc = "uri"
    /\ \E ok \in BOOLEAN :
          conn' = IF ok THEN [conn EXCEPT !.pc = "build"]
                  ELSE [conn EXCEPT !.pc = "returned", !.failed = "uri"]
    /\ UNCHANGED <<heap, alloc, cache, thr, nAccepted, fault, fetch>>

\* create_server_http_request reads the client's header lines and builds
\* the upstream request (proxy.c:278).
BuildRequest ==
    /\ conn.pc = "build"
    /\ \E lines \in HeaderSeqs : \E host0, other0 \in Stack :
          conn' = [conn EXCEPT
                      !.pc = "connect", !.hdrs = lines,
                      !.request = create_server_http_request(
                                      "a", "/", lines, host0, other0)]
    /\ UNCHANGED <<heap, alloc, cache, thr, nAccepted, fault, fetch>>

\* open_clientfd (proxy.c:283-289): a failure ends the thread; otherwise
\* the request is written to the origin and the relay loop begins.
ConnectOrigin ==
    /\ conn.pc = "connect"
    /\ \E ok \in BOOLEAN :
          conn' = IF ok THEN [conn EXCEPT !.pc = "relay",
                                          !.origin = "connected"]
                  ELSE [conn EXCEPT !.pc = "returned",
                                    !.failed = "connect"]
    /\ UNCHANGED <<heap, alloc, cache, thr, nAccepted, fault, fetch>>

NextRequest ==
    \/ ReadRequestLine
    \/ ParseRequestLine
    \/ ProbeCache
    \/ ParseUri
    \/ BuildRequest
    \/ ConnectOrigin
    \/ ServeHit(1)

SpecRequest == InitRequest /\ [][NextRequest]_vars

\* ------------------------------------------ statement by statement
\* The handler followed from one lockMutex, unLockMutex or socket call to
\* the next.  pc names the statement the thread executes next.

\* lockMutex (cache.c:43-47): pthread_mutex_lock returns once no thread
\* holds cache.rwMutex.
lockMutex(w, from, to) ==
    /\ fault # "abort"
    /\ thr[w].pc = from
    /\ Free(cache)
    /\ cache' = Locked(cache, w)
    /\ thr' = [thr EXCEPT ![w].pc = to]
    /\ UNCHANGED <<heap, alloc, nAccepted, fault, fetch, conn>>

\* unLockMutex (cache.c:54-58); the thread goes on as t.
unLockMutex(w, from, t) ==
    /\ fault # "abort"
    /\ thr[w].pc = from
    /\ cache' = Unlocked(cache)
    /\ thr' = [thr EXCEPT ![w] = t]
    /\ UNCHANGED <<heap, alloc, nAccepted, fault, fetch, conn>>

\* A statement of thread w that touches neither the cache nor the mutex.
Local(w, from, t, f) ==
    /\ fault # "abort"
    /\ thr[w].pc = from
    /\ thr' = [thr EXCEPT ![w] = t]
    /\ fault' = f
    /\ UNCHANGED <<heap, alloc, cache, nAccepted, fetch, conn>>

\* The hit path of proxy.c:229-232 with the release taken without the
\* mutex.
HitPathUnlocked(pc) ==
    CASE pc = "hit_write" -> "hit_dec"
      [] pc = "hit_lock" -> "hit_dec"
      [] pc = "hit_dec" -> "hit_unlock"

\* The order of the statements of the hit path (proxy.c:229-232).
HitPath(pc) ==
    CASE pc = "hit_write" -> "hit_lock"
      [] pc = "hit_lock" -> "hit_dec"
      [] pc = "hit_dec" -> "hit_unlock"

\* The statements that call the socket layer, and the statements that read
\* or write nextBlock, previousBlock, readReferenceCnt, cacheBlockHead,
\* cacheBlockTail or cache_size.
SocketCalls ==
    {"idle", "hit_write", "connect", "send", "relay_read", "relay_write"}

SharedAccesses ==
    {"probe_scan", "recheck_scan", "hit_dec", "uri_test", "evict_test",
     "evict_pass", "uri_link"}

\* A new thread reads the request line of a GET for URI u (proxy.c:199)
\* and calls cache_find.  The connection counts as a miss until its probe
\* hits.
ReadLine(w) ==
    /\ fault # "abort"
    /\ thr[w].pc = "idle"
    /\ nAccepted.hit + nAccepted.miss < LockRequests
    /\ \E u \in URIs :
          thr' = [thr EXCEPT ![w] = [FreshThread EXCEPT !.uri = u,
                                                        !.pc = "probe_lock"]]
    /\ nAccepted' = [nAccepted EXCEPT !.miss = @ + 1]
    /\ UNCHANGED <<heap, alloc, cache, fault, fetch, conn>>

\* cache_find of proxy.c:227: lockMutex (cache.c:71), the scan with the
\* pin and the move to the tail (72-118), unLockMutex (120, 123).
ProbeLock(w) == lockMutex(w, "probe_lock", "probe_scan")

ProbeScan(w) ==
    LET r == cache_find(heap, cache, thr[w].uri) IN
    /\ fault # "abort"
    /\ thr[w].pc = "probe_scan"
    /\ NULL \notin r.deref /\ r.ret # HANG
    /\ heap' = r.heap
    /\ cache' = r.cache
    /\ thr' = [thr EXCEPT ![w].reqCachePtr = r.ret,
                          ![w].hitAt = r.at,
                          ![w].pc = "probe_unlock"]
    /\ nAccepted' = IF r.ret = NULL THEN nAccepted
                    ELSE [hit |-> nAccepted.hit + 1,
                          miss |-> nAccepted.miss - 1]
    /\ fault' = IF r.deref \subseteq alloc THEN fault ELSE "uaf"
    /\ UNCHANGED <<alloc, fetch, conn>>

ProbeUnlock(w) ==
    unLockMutex(w, "probe_unlock",
                [thr[w] EXCEPT !.pc = IF thr[w].reqCachePtr # NULL
                                      THEN "hit_write" ELSE "connect"])

\* The hit path: rio_writen of the cached object (proxy.c:229), lockMutex
\* (230), the release of the pin (231), unLockMutex (232) and return.
HitWrite(w) ==
    Local(w, "hit_write", [thr[w] EXCEPT !.pc = HitPath("hit_write")],
          IF thr[w].reqCachePtr \in alloc THEN fault ELSE "uaf")

HitLock(w) == lockMutex(w, "hit_lock", HitPath("hit_lock"))

HitRelease(w) ==
    /\ fault # "abort"
    /\ thr[w].pc = "hit_dec"
    /\ heap' = [heap EXCEPT ![thr[w].reqCachePtr].readReferenceCnt = @ - 1]
    /\ thr' = [thr EXCEPT ![w].pc = HitPath("hit_dec")]
    /\ fault' = IF thr[w].reqCachePtr \in alloc THEN fault ELSE "uaf"
    /\ UNCHANGED <<alloc, cache, nAccepted, fetch, conn>>

HitUnlock(w) == unLockMutex(w, "hit_unlock", FreshThread)

\* The miss path: the reads of the client's headers (proxy.c:279, 350)
\* and open_clientfd (284), which may fail and end the request, rio_writen of the upstream request (293), and the relay loop:
\* rio_readnb (301), the copy (304-307), rio_writen to the client (310).
\* After the loop, close and the size test of proxy.c:315.
Connect(w) ==
    \E ok \in BOOLEAN :
        Local(w, "connect",
              IF ok THEN [thr[w] EXCEPT !.pc = "send"] ELSE FreshThread,
              fault)

Send(w) == Local(w, "send", [thr[w] EXCEPT !.pc = "relay_read"], fault)

ReadOrigin(w) ==
    \E n \in 0 .. MAXLINE :
        LET t == thr[w]
            t1 == [RelayChunk(t, n) EXCEPT !.pc = "relay_write"]
        IN  /\ t.sizebuf + n <= MaxResponse
            /\ \E f \in Teed(t1, fault) :
                  Local(w, "relay_read",
                        IF n # 0 THEN t1
                        ELSE IF Cacheable(t.sizebuf)
                        THEN [t EXCEPT !.pc = "recheck_lock"]
                        ELSE FreshThread,
                        IF n # 0 THEN f ELSE fault)

WriteClient(w) ==
    Local(w, "relay_write", [thr[w] EXCEPT !.pc = "relay_read"], fault)

\* cache_find of proxy.c:316.  A hit ends the request.
RecheckLock(w) == lockMutex(w, "recheck_lock", "recheck_scan")

RecheckScan(w) ==
    LET r == cache_find(heap, cache, thr[w].uri) IN
    /\ fault # "abort"
    /\ thr[w].pc = "recheck_scan"
    /\ NULL \notin r.deref /\ r.ret # HANG
    /\ heap' = r.heap
    /\ cache' = r.cache
    /\ thr' = [thr EXCEPT ![w].reqCachePtr = r.ret,
                          ![w].pc = "recheck_unlock"]
    /\ fault' = IF r.deref \subseteq alloc THEN fault ELSE "uaf"
    /\ UNCHANGED <<alloc, nAccepted, fetch, conn>>

RecheckUnlock(w) ==
    unLockMutex(w, "recheck_unlock",
                IF thr[w].reqCachePtr # NULL THEN FreshThread
                ELSE [thr[w] EXCEPT !.pc = "copy_lock"])

\* The copy of the URI: lockMutex (proxy.c:318), Malloc and memcpy
\* (319-320), unLockMutex (321).
CopyLock(w) == lockMutex(w, "copy_lock", "copy_unlock")

CopyUnlock(w) ==
    unLockMutex(w, "copy_unlock", [thr[w] EXCEPT !.pc = "uri_lock"])

\* cache_uri: lockMutex (cache.c:183), the size test (186-187) and the
\* start of cache_eviction (137-140).
UriLock(w) == lockMutex(w, "uri_lock", "uri_test")

UriTest(w) ==
    LET t == thr[w]
        req == EvictionRequest(cache, t.sizebuf)
        p == cache.cacheBlockHead
    IN  /\ fault # "abort"
        /\ t.pc = "uri_test"
        /\ thr' = IF NeedsEviction(cache, t.sizebuf)
                  THEN [thr EXCEPT ![w].reqBufSize = req,
                                   ![w].sizeFreed = 0,
                                   ![w].cacheLinePtr = p,
                                   ![w].pc = IF EvictMore(0, req, p)
                                             THEN "evict_test"
                                             ELSE "uri_link"]
                  ELSE [thr EXCEPT ![w].pc = "uri_link"]
        /\ UNCHANGED <<heap, alloc, cache, nAccepted, fault, fetch, conn>>

\* The busy wait of cache_eviction: the test of the count (cache.c:143),
\* unLockMutex (144), lockMutex (145).
EvictTest(w) ==
    LET p == thr[w].cacheLinePtr IN
    /\ thr[w].pc = "evict_test"
    /\ \E wait \in Pinned(heap, alloc, p) :
        Local(w, "evict_test",
              [thr[w] EXCEPT !.pc = IF wait THEN "evict_unlock"
                                    ELSE "evict_pass"],
              IF p \in alloc THEN fault ELSE "uaf")

EvictUnlock(w) ==
    unLockMutex(w, "evict_unlock",
                [thr[w] EXCEPT !.pc = "evict_lock", !.waited = TRUE])

EvictLock(w) == lockMutex(w, "evict_lock", "evict_test")

\* One pass of the eviction loop (cache.c:147-165) and the loop condition
\* (140).
EvictPass(w) ==
    LET t == thr[w]
        e == EvictBlock(heap, alloc, cache, t.cacheLinePtr)
        freed == SizeAdd(t.sizeFreed, e.freed)
        used == {t.cacheLinePtr} \cup
                (IF heap[t.cacheLinePtr].nextBlock # NULL
                 THEN {heap[t.cacheLinePtr].nextBlock} ELSE {})
    IN  /\ fault # "abort"
        /\ t.pc = "evict_pass"
        /\ heap' = e.heap
        /\ alloc' = e.alloc
        /\ cache' = e.cache
        /\ thr' = [thr EXCEPT ![w].sizeFreed = freed,
                              ![w].cacheLinePtr = e.next,
                              ![w].pc = IF EvictMore(freed, t.reqBufSize,
                                                     e.next)
                                        THEN "evict_test" ELSE "uri_link"]
        /\ fault' = IF used \subseteq alloc THEN fault ELSE "uaf"
        /\ UNCHANGED <<nAccepted, fetch, conn>>

\* cache_uri after the eviction: the new block is linked at the tail and
\* filled in (cache.c:191-213), then unLockMutex (214) and return.
UriLink(w) ==
    LET t == thr[w]
        empty == cache.cacheBlockHead = NULL /\ cache.cacheBlockTail = NULL
    IN  /\ fault # "abort"
        /\ t.pc = "uri_link"
        /\ empty \/ cache.cacheBlockTail # NULL
        /\ \E b \in Malloc :
              LET r == InsertBlock(heap, alloc, cache, b, t.uri,
                                   OriginBytes(t.uri, t.bufEnd), t.sizebuf)
              IN  /\ heap' = r.heap
                  /\ alloc' = r.alloc
                  /\ cache' = r.cache
        /\ thr' = [thr EXCEPT ![w].pc = "uri_unlock"]
        /\ fault' = IF empty \/ cache.cacheBlockTail \in alloc
                    THEN fault ELSE "uaf"
        /\ UNCHANGED <<nAccepted, fetch, conn>>

UriUnlock(w) == unLockMutex(w, "uri_unlock", FreshThread)

NextLock ==
    \E w \in 1 .. LockWorkers :
        \/ ReadLine(w)
        \/ ProbeLock(w)
        \/ ProbeScan(w)
        \/ ProbeUnlock(w)
        \/ HitWrite(w)
        \/ HitLock(w)
        \/ HitRelease(w)
        \/ HitUnlock(w)
        \/ Connect(w)
        \/ Send(w)
        \/ ReadOrigin(w)
        \/ WriteClient(w)
        \/ RecheckLock(w)
        \/ RecheckScan(w)
        \/ RecheckUnlock(w)
        \/ CopyLock(w)
        \/ CopyUnlock(w)
        \/ UriLock(w)
        \/ UriTest(w)
        \/ EvictTest(w)
        \/ EvictUnlock(w)
        \/ EvictLock(w)
        \/ EvictPass(w)
        \/ UriLink(w)
        \/ UriUnlock(w)

SpecLock == Init /\ [][NextLock]_vars

TypeOK ==
    /\ alloc \subseteq Blocks
    /\ cache.rwMutex \in {NOBODY} \cup Workers
    /\ cache.cache_size \in 0 .. SizeMod - 1
    /\ nAccepted.hit \in Nat /\ nAccepted.miss \in Nat
    /\ fault \in {"none", "uaf", "overrun", "abort"}

\* ---------------------------------------------------------------- claims
\* The entries of the cache, in list order, and those of them that are
\* pinned.
Entries == ListOf(heap, cache)

EntriesAfter == ListOf(heap', cache')

PinnedEntries == {b \in SeqSet(Entries) : heap[b].readReferenceCnt # 0}

\* No use of freed memory or of a null pointer has happened so far.
NoFault == fault = "none"

\* C1: an entry whose pin count is nonzero is neither freed nor taken out of
\* the list: a pinned entry of the cache is still an allocated entry of the
\* cache after every step.
C1_PinSafety ==
    [][NoFault =>
         \A b \in PinnedEntries \cap alloc :
            /\ b \in alloc' /\ b \in SeqSet(EntriesAfter)
            /\ heap'[b].cache_obj = heap[b].cache_obj]_vars

\* C2: no two entries of the cache list carry the same URI key.
C2_NoDuplicateURI ==
    NoFault =>
        \A i, j \in 1 .. Len(Entries) :
            heap[Entries[i]].cache_uri_key = heap[Entries[j]].cache_uri_key
                => i = j

\* C3: when no worker thread is in flight, every entry's pin count is zero.
C3_QuiescentUnpinned ==
    (NoFault /\ \A w \in Workers : thr[w].pc = "idle")
        => PinnedEntries = {}

\* C4: whenever the mutex is free, cache_size equals the sum of the sizes of
\* the entries in the list.
C4_SizeAccounting ==
    (NoFault /\ Free(cache))
        => cache.cache_size = SumSizes(heap, Entries)

\* C6: an entry that leaves the list was the head of the list: eviction
\* removes no later entry while an earlier one remains.
C6_EvictsOnlyHead ==
    [][NoFault =>
         \A b \in SeqSet(Entries) :
            b \notin SeqSet(EntriesAfter) => b = cache.cacheBlockHead]_vars

\* Thread w gives up on the cap in this step: it adds its entry although its
\* eviction, which met a pinned head, freed less than it was asked for.
ShortInsert(w) ==
    /\ thr[w].pc = "uri_insert" /\ thr'[w].pc = "idle"
    /\ thr[w].sizeFreed < thr[w].reqBufSize
    /\ thr[w].waited

\* C5: whenever a cache operation has returned (the mutex is free again),
\* cache_size is at most MAX_CACHE_SIZE, unless the operation is an insert
\* whose eviction fell short after meeting a pinned head.
C5_CapacityBound ==
    [][(NoFault /\ Free(cache'))
          => \/ cache'.cache_size <= MAX_CACHE_SIZE
             \/ \E w \in Workers : ShortInsert(w)]_vars

\* This step is a whole cache_find(u) by thread w: the probe of a new
\* request or the recheck after the download.
FindCall(w, u) ==
    \/ /\ thr[w].pc = "idle" /\ thr'[w].pc \in {"hit", "recheck"}
       /\ thr'[w].uri = u
    \/ /\ thr[w].pc = "recheck" /\ thr'[w].pc \in {"uri", "idle"}
       /\ thr[w].uri = u

\* The step of FindCall(w, u) returned a block / returned NULL.
FindHit(w) ==
    \/ thr[w].pc = "idle" /\ thr'[w].pc = "hit"
    \/ thr[w].pc = "recheck" /\ thr'[w].pc = "idle"

FindMiss(w) ==
    \/ thr[w].pc = "idle" /\ thr'[w].pc = "recheck"
    \/ thr[w].pc = "recheck" /\ thr'[w].pc = "uri"

\* The entries with key u, and the first of them in list order.
Matches(u) == {i \in 1 .. Len(Entries) : heap[Entries[i]].cache_uri_key = u}

FirstMatch(u) ==
    Entries[CHOOSE i \in Matches(u) : \A j \in Matches(u) : i <= j]

\* The list with entry b taken out and put behind the last entry.
MovedToTail(s, b) ==
    LET Other(x) == x # b IN SelectSeq(s, Other) \o <<b>>

\* Every field of every block but the links and the pin count of b keeps
\* its value in this step.
OnlyPinOf(b) ==
    \A x \in Blocks :
        /\ heap'[x].cache_obj = heap[x].cache_obj
        /\ heap'[x].cache_obj_size = heap[x].cache_obj_size
        /\ heap'[x].cache_uri_key = heap[x].cache_uri_key
        /\ x # b => heap'[x].readReferenceCnt = heap[x].readReferenceCnt

\* The list is a proper doubly linked list of allocated blocks: it runs
\* from cacheBlockHead to cacheBlockTail, and previousBlock mirrors
\* nextBlock.
WellFormed ==
    /\ (cache.cacheBlockHead = NULL) = (cache.cacheBlockTail = NULL)
    /\ SeqSet(Entries) \subseteq alloc
    /\ Cardinality(SeqSet(Entries)) = Len(Entries)
    /\ Entries # <<>> =>
          /\ cache.cacheBlockTail = Entries[Len(Entries)]
          /\ heap[cache.cacheBlockHead].previousBlock = NULL
    /\ \A i \in 2 .. Len(Entries) :
          heap[Entries[i]].previousBlock = Entries[i - 1]

HitOfThree(w, branch) ==
    /\ thr[w].pc = "hit" /\ thr[w].hitAt = branch
    /\ WellFormed /\ Len(Entries) = 3
    /\ Entries[3] = thr[w].reqCachePtr
    /\ heap[thr[w].reqCachePtr].readReferenceCnt >= 1

C8_MissChangesNothing ==
    [][\A w \in Workers : \A u \in URIs :
          (FindCall(w, u) /\ Matches(u) = {}) =>
              /\ FindMiss(w)
              /\ heap' = heap /\ cache' = cache /\ alloc' = alloc]_vars

\* A thread has rechecked a URI that no entry carries while the list holds
\* another entry that is pinned: it is on its way into cache_uri.
C8_Witness ==
    \E w \in Workers :
        /\ thr[w].pc = "uri"
        /\ Matches(thr[w].uri) = {}
        /\ PinnedEntries # {}
        /\ Len(Entries) >= 2

\* C9: once a download has ended at EOF, no read having failed, and its
\* thread has returned, the cache holds an entry for the URI exactly when
\* the bytes received were at most MAX_OBJECT_SIZE (the URI was absent when
\* the download began and no other thread runs).
C9_CacheabilityThreshold ==
    (fetch.pc = "done" /\ fetch.errs = 0 /\ thr[1].pc = "idle")
        => (Matches(fetch.uri) # {}) = (fetch.got <= MAX_OBJECT_SIZE)

\* C10: when cache_eviction has returned, the entries it took out of the
\* list add up to at least the bytes asked for, or the list is empty; and
\* when the list held exactly MAX_CACHE_SIZE bytes, none pinned, at the
\* start of the insert, they add up to at least the size of the new object.
C10_EvictionAmount ==
    \A w \in Workers :
        thr[w].pc = "uri_insert" =>
            /\ thr[w].removed >= thr[w].reqBufSize \/ Entries = <<>>
            /\ thr[w].full => thr[w].removed >= thr[w].sizebuf

\* The URI keys of the entries, in list order.
KeysOf(s) == [i \in 1 .. Len(s) |-> heap[s[i]].cache_uri_key]

\* The URIs from a to b in turn.
Run(a, b) == [i \in 1 .. b - a + 1 |-> a + i - 1]

\* The caller has done exactly n inserts and no lookup / n inserts and then
\* one lookup, a hit on u, whose entry it still holds.
InsertsOnly(n) == nAccepted.miss = n /\ nAccepted.hit = 0

ThenLookup(n, u) ==
    /\ nAccepted.miss = n /\ nAccepted.hit = 1
    /\ thr[1].pc = "hit" /\ thr[1].uri = u

\* C11 as stated: with a cap of 1 MiB, after ten inserts of 200 KiB objects
\* U1 .. U10 and no lookup the cache holds U5 .. U10, and a lookup of U5
\* then moves it to the tail and makes U6 the head.
C11_SixRemain ==
    /\ InsertsOnly(10) => KeysOf(Entries) = Run(5, 10)
    /\ ThenLookup(10, 5) => KeysOf(Entries) = Run(6, 10) \o <<5>>

\* C11 amended: with a cap of 1 MiB, after n inserts of 200 KiB objects
\* U1 .. Un and no lookup the cache holds the last five of them (all of
\* them while n <= 5) in insertion order, so that after ten inserts U1 .. U5
\* have been evicted and U6 .. U10 remain; a lookup of U6 then moves it to
\* the tail and makes U7 the head.
C11_FiveRemain ==
    /\ \A n \in 0 .. 10 :
          InsertsOnly(n) =>
              KeysOf(Entries) = Run(IF n <= 5 THEN 1 ELSE n - 4, n)
    /\ ThenLookup(10, 6) =>
          /\ KeysOf(Entries) = <<7, 8, 9, 10, 6>>
          /\ heap[cache.cacheBlockHead].cache_uri_key = 7
          /\ thr[1].hitAt = "head"

\* Ten inserts, then a lookup of U6 that found it at the head.
C11_Witness ==
    /\ ThenLookup(10, 6)
    /\ Len(Entries) = 5
    /\ heap[thr[1].reqCachePtr].readReferenceCnt = 1
    /\ cache.cacheBlockTail = thr[1].reqCachePtr

\* This step is the end of a cache_uri call by thread w: the new block is
\* linked and the mutex released.
UriReturn(w) == thr[w].pc = "uri_insert" /\ thr'[w].pc = "idle"

\* C12: a cache_uri for a URI that an entry of the list already carries is
\* a no-op: the list, every block of it and cache_size are after the call
\* what they were before its insert.
C12_InsertPresentNoOp ==
    [][\A w \in Workers :
          (NoFault /\ UriReturn(w) /\ Matches(thr[w].uri) # {}) =>
              /\ EntriesAfter = Entries
              /\ \A b \in SeqSet(Entries) : heap'[b] = heap[b]
              /\ cache'.cache_size = cache.cache_size]_vars

\* C13: when a cache_uri(uri, b) returns, a cache_find(uri) made next (no
\* eviction can have come in between) returns an entry whose body and size
\* are those of b.
C13_InsertThenFind ==
    [][\A w \in Workers :
          (NoFault /\ UriReturn(w)) =>
              LET r == cache_find(heap', cache', thr[w].uri) IN
              /\ r.ret \in DOMAIN heap
              /\ heap'[r.ret].cache_obj =
                     OriginBytes(thr[w].uri, thr[w].sizebuf)
              /\ heap'[r.ret].cache_obj_size = thr[w].sizebuf]_vars

\* This step is the probe of the next request after a download that ended
\* at EOF, no read having failed, and whose thread has returned, for the
\* URI of that download.
WarmRequest ==
    /\ fetch.pc = "done" /\ fetch.errs = 0 /\ thr[1].pc = "idle"
    /\ thr'[1].pc # "idle" /\ thr'[1].uri = fetch.uri

\* C14: after a GET of u whose response was at most MAX_OBJECT_SIZE bytes
\* has been completed, the next request for u (nothing ran in between) is a
\* cache hit that is served the bytes the first one relayed, and no
\* further connection to the origin is made.
C14_ColdThenWarm ==
    [][(WarmRequest /\ fetch.got <= MAX_OBJECT_SIZE) =>
          /\ thr'[1].pc = "hit"
          /\ thr'[1].hitBody = OriginBytes(fetch.uri, fetch.got)
          /\ nAccepted'.miss = nAccepted.miss]_vars

\* Thread w is in the busy wait of cache_eviction on an entry whose pin
\* count is not zero.
WaitsOnPinned(w) ==
    /\ thr[w].pc = "evict_relock"
    /\ thr[w].cacheLinePtr \in alloc
    /\ heap[thr[w].cacheLinePtr].readReferenceCnt # 0

\* Thread x is writing entry b to its client: it will release its pin.
Transmits(x, b) == thr[x].pc = "hit" /\ thr[x].reqCachePtr = b

\* C15: an evictor that waits on a pinned entry waits for a worker that is
\* transmitting that entry, so that the wait ends when the writes
\* complete: no state has an evictor waiting on an entry that no worker is
\* transmitting.
C15_WaitHasTransmitter ==
    \A w \in Workers :
        (NoFault /\ WaitsOnPinned(w)) =>
            \E x \in Workers : Transmits(x, thr[w].cacheLinePtr)

\* The request line has the form method SP URI SP HTTP/1.x, with the two
\* spaces at positions a and b.
Shaped(line, a, b) ==
    /\ 1 < a /\ a + 1 < b /\ b + 8 <= Len(line)
    /\ line[a] = " " /\ line[b] = " "
    /\ \A i \in (1 .. a - 1) \cup (a + 1 .. b - 1) : ~ IsSpace(line[i])
    /\ SubSeq(line, b + 1, b + 7) = <<"H", "T", "T", "P", "/", "1", ".">>

WellFormedLine(line) == \E a, b \in 1 .. Len(line) : Shaped(line, a, b)

\* The method and the minor version of a well-formed request line.
MethodOf(line) ==
    LET a == CHOOSE a \in 1 .. Len(line) :
                 \E b \in 1 .. Len(line) : Shaped(line, a, b)
    IN  SubSeq(line, 1, a - 1)

MinorOf(line) ==
    LET b == CHOOSE b \in 1 .. Len(line) :
                 \E a \in 1 .. Len(line) : Shaped(line, a, b)
    IN  line[b + 8]

\* The status of the error response a request line calls for, or "none".
ErrorDue(line) ==
    IF ~ WellFormedLine(line) THEN "400"
    ELSE IF MinorOf(line) \notin {"0", "1"} THEN "400"
    ELSE IF MethodOf(line) # <<"G", "E", "T">> THEN "501"
    ELSE "none"

\* The statuses of the responses written to the client so far.
Written == {conn.out[i].status : i \in 1 .. Len(conn.out)}

\* C16: once the request line has been read and tested, a proxy-generated
\* error response has been written exactly when the line is malformed or
\* its minor version is neither 0 nor 1 (400), or its method is not GET
\* (501), the 400 taking precedence; the thread has then returned with no
\* cache probe and no origin connection.  After a URI parse failure or a
\* connect failure the thread has returned and nothing was written.
C16_ErrorResponses ==
    /\ conn.pc \notin {"none", "line"} /\ conn.line # <<>> =>
          /\ Written \cap {"400", "501"} =
                 {ErrorDue(conn.line)} \ {"none"}
          /\ ErrorDue(conn.line) # "none" =>
                /\ conn.out = clienterror(ErrorDue(conn.line))
                /\ conn.pc = "returned"
                /\ ~ conn.probed /\ conn.origin = "none"
                /\ thr[1].pc = "idle"
    /\ conn.failed # "none" =>
          /\ conn.out = <<>> /\ conn.pc = "returned"
          /\ conn.origin = "none"

\* A request line of the right form whose version is 1.2 and whose method
\* is not GET has been answered with a 400 and nothing else.
C16_Witness ==
    /\ conn.pc = "returned"
    /\ WellFormedLine(conn.line)
    /\ MinorOf(conn.line) = "2"
    /\ MethodOf(conn.line) = <<"P", "U", "T">>
    /\ Written = {"400"}

\* C17: once a read from the origin has failed, the thread is out of the
\* relay loop, and nothing was handed to rio_writen for the client nor
\* copied into ResponseObjectbuf on account of the failed read.
C17_ReadErrorEndsRelay ==
    fetch.errs > 0 =>
        /\ thr[1].pc # "relay"
        /\ fetch.sent = 0
        /\ fetch.teed = 0

\* A header line whose field name is Host, and one that contains none of
\* the four keys.
IsHostHeader(line) == line[1] = "Host"

Passes(line) ==
    /\ ~ Strstr(line, host_key) /\ ~ Strstr(line, connection_key)
    /\ ~ Strstr(line, proxy_connection_key) /\ ~ Strstr(line, user_agent_key)

\* The Host header of the upstream request: the client's, or Host: <host>.
HostHeaderDue(hostname, lines) ==
    IF \E i \in 1 .. Len(lines) : IsHostHeader(lines[i])
    THEN lines[CHOOSE i \in 1 .. Len(lines) : IsHostHeader(lines[i])]
    ELSE <<"Host", ": ", hostname>>

\* C18: the request built for the origin is the request line GET <path>
\* HTTP/1.0, one Host header (the client's if it sent one, else Host:
\* <host>), Connection: close, Proxy-Connection: close, the fixed
\* User-Agent, then the client's header lines that contain none of Host,
\* Connection, Proxy-Connection, User-Agent, as received and in their
\* order, then the empty line.
C18_BuiltRequest ==
    conn.request # <<>> =>
        conn.request =
            <<<<"GET ", "/", " HTTP/1.0">>, HostHeaderDue("a", conn.hdrs),
              <<"Connection", ": close">>,
              <<"Proxy-", "Connection", ": close">>,
              <<"User-Agent", ": Mozilla/5.0">>>>
            \o SelectSeq(conn.hdrs, Passes) \o <<<<>>>>

\* C19: while a download is relayed in reads of 1 .. MAXLINE bytes, none of
\* them failing, the bytes copied into ResponseObjectbuf end at or below
\* MAX_OBJECT_SIZE, and the running total is the number of bytes received.
C19_TeeBound ==
    (fetch.pc = "relay" /\ fetch.errs = 0) =>
        /\ thr[1].bufEnd <= MAX_OBJECT_SIZE
        /\ thr[1].sizebuf = fetch.got

\* C20: an evictor whose wait for a pinned entry is over holds an entry
\* that is still allocated and still in the list, and no block is read or
\* freed after it was freed.
C20_EvictorHoldsEntry ==
    /\ fault # "uaf"
    /\ \A w \in Workers :
          (thr[w].pc = "evict_free" /\ thr[w].waited) =>
              /\ thr[w].cacheLinePtr \in alloc
              /\ thr[w].cacheLinePtr \in SeqSet(Entries)

\* C21: whenever the mutex is free the list is a proper doubly linked
\* list: the head has no predecessor, the tail is the last block reached
\* from the head and has no successor, previousBlock mirrors nextBlock, no
\* block is reached twice; cacheBlockHead is NULL exactly when
\* cacheBlockTail is, and cache_size is then 0.
C21_ListWellFormed ==
    Free(cache) =>
        /\ WellFormed
        /\ Entries # <<>> => heap[cache.cacheBlockTail].nextBlock = NULL
        /\ Entries = <<>> => cache.cache_size = 0

\* C23: no entry of the cache has a negative pin count: readReferenceCnt
\* is at least 0 in every entry of the list, so the decrement of the hit
\* path (proxy.c:231) is never applied to an entry whose count is 0.
C23_PinNonNegative ==
    \A b \in SeqSet(Entries) : heap[b].readReferenceCnt >= 0

\* The worker whose statement this step executes.
Acts(w) == thr'[w] # thr[w]

\* C22: a worker that calls the socket layer (reads the client, writes to
\* the client, connects to, writes to or reads from the origin) does not
\* hold the cache mutex, and a worker that reads or writes a list link, a
\* pin count or cache_size holds it; in particular no step changes any of
\* these unless the acting worker holds the mutex.
C22_MutexDiscipline ==
    [][\A w \in 1 .. LockWorkers :
          Acts(w) =>
             /\ thr[w].pc \in SocketCalls => ~ Holds(w)
             /\ thr[w].pc \in SharedAccesses => Holds(w)
             /\ ( \/ [cache' EXCEPT !.rwMutex = 0] #
                        [cache EXCEPT !.rwMutex = 0]
                  \/ \E b \in DOMAIN heap :
                        \/ heap'[b].nextBlock # heap[b].nextBlock
                        \/ heap'[b].previousBlock # heap[b].previousBlock
                        \/ heap'[b].readReferenceCnt #
                              heap[b].readReferenceCnt )
                   => Holds(w)]_vars

\* A worker tests the count of the head again after a wait, holding the
\* mutex, while the worker that pinned the head has written the object to
\* its client and has not released the pin yet.
C22_Witness ==
    \E w, x \in 1 .. LockWorkers :
        /\ thr[w].pc = "evict_test" /\ thr[w].waited /\ Holds(w)
        /\ thr[x].pc = "hit_lock"
        /\ thr[x].reqCachePtr = thr[w].cacheLinePtr

====
